---- MODULE Spec2Model ----
(***************************************************************************)
(* A model of file_org.py: the three commands create-file-list,            *)
(* move-duplicates and flatten-directory.                                  *)
(*                                                                         *)
(* SpecCFL is create_file_list: the main thread, the futures of the        *)
(* ThreadPoolExecutor, the manifest writer and the progress task.          *)
(* FairCFL adds the fairness of its threads.                               *)
(* SpecMove is move_duplicates and flatten_directory over one file system: *)
(* the loops that pick a destination name, move, fall back to copy and     *)
(* delete, and report.  SpecMalformed is move_duplicates reading a         *)
(* manifest that create_file_list did not write.                           *)
(***************************************************************************)
EXTENDS Naturals, Integers, Sequences, FiniteSets, TLC

\* ---------------------------------------------------------------- bounds
MaxFiles == 3      \* scanned files in one create-file-list run
MaxWorkers == 2    \* largest --workers value tried
MaxRows == 3       \* rows of the manifest read by move-duplicates
MaxRuns == 2       \* consecutive move-duplicates runs over one manifest
MaxFaults == 2     \* I/O calls that raise during one behaviour
MaxNested == 3     \* files below the subdirectories of a flattened tree

\* ------------------------------------------------- create_file_list state
VARIABLES
    cpc,            \* where the main thread of create_file_list is
    workers,        \* the --workers option
    file_paths,     \* the list built by os.walk (paths are 1..n)
    total_files,    \* len(file_paths)
    fstate,         \* per path: the state of its future / of process_file
    attempts,       \* per path: how many times process_file was entered
    yielded,        \* futures as_completed has already handed out
    cur,            \* the future in the body of the as_completed loop (0: none)
    result,         \* future.result() of cur: "record" or "none"
    csv_state,      \* "unopened", "open", "closed"
    manifest,       \* the rows written after the header, in order
    appenders,      \* threads that are inside writer.writerow right now
    errors,         \* paths reported by logging.error, in order
    processed,      \* the local counter of the loop
    task_total,     \* total= of progress.add_task (-1: no task yet)
    task_completed, \* the task's completed count
    notified        \* completed counts the progress observer has been shown

\* ------------------------- move_duplicates / flatten_directory state
VARIABLES
    cmd,            \* the command that runs: "move_duplicates", "flatten_directory"
    mpc,            \* where that command is
    fs,             \* the file system: path -> entry (directory or file data)
    fs0,            \* the file system when the command started
    faults,         \* how many I/O calls have raised so far
    run,            \* number of the move-duplicates run over the manifest
    csv_rows,       \* the rows of csv_file, in file order
    hash_to_files,  \* the groups, in the order their hash first appears
    gi,             \* index of the group the outer loop is at
    fi,             \* index into the candidates of that group
    file_list,      \* flatten_directory's file_paths
    idx,            \* index of the item flatten_directory is at
    src_path,       \* file_path / src_path of the item
    dest_path,      \* the candidate destination path
    n,              \* the suffix counter
    io,             \* results of the item's file-system calls so far
    orig,           \* the entry found at src_path when the item was picked
    moved_count,    \* the counter reported at the end
    events,         \* one record per finished item: what was logged, and io
    kept,           \* the first paths of the groups visited in this run
    history,        \* kept and events of the finished runs
    fd_task,        \* flatten_directory's progress task
    rm_queue,       \* directories the prune pass still has to visit
    rm_log          \* the prune pass so far: each directory and how rmdir ended

moveVars == <<cmd, mpc, fs, fs0, faults, run, csv_rows, hash_to_files, gi, fi,
              file_list, idx, src_path, dest_path, n, io, orig, moved_count,
              events, kept, history, fd_task, rm_queue, rm_log>>

cflVars == <<cpc, workers, file_paths, total_files, fstate, attempts, yielded,
             cur, result, csv_state, manifest, appenders, errors, processed,
             task_total, task_completed, notified>>

vars == <<cflVars, moveVars>>

\* the id of the main thread; pool threads are named by the path they run
MAIN == 0

Paths == {file_paths[i] : i \in 1..Len(file_paths)}

\* process_file is between its entry and its return for these paths
Running == {p \in Paths : fstate[p] \in {"stat", "open"}}

\* the files process_file holds open (line 49, inside the with block)
OpenFiles == {p \in Paths : fstate[p] = "open"}

Finished == {p \in Paths : fstate[p] \in {"ok", "fail"}}

Count(seq, x) == Cardinality({i \in 1..Len(seq) : seq[i] = x})

CFLInit ==
    /\ cpc = "scan"
    /\ workers \in 1..MaxWorkers
    /\ file_paths = <<>>
    /\ total_files = 0
    /\ fstate = <<>>
    /\ attempts = <<>>
    /\ yielded = {}
    /\ cur = 0
    /\ result = "none"
    /\ csv_state = "unopened"
    /\ manifest = <<>>
    /\ appenders = {}
    /\ errors = <<>>
    /\ processed = 0
    /\ task_total = -1
    /\ task_completed = 0
    /\ notified = <<>>

\* lines 36-41: os.walk collects the paths, total_files = len(file_paths)
Scan ==
    /\ cpc = "scan"
    /\ \E found \in 0..MaxFiles :
        /\ file_paths' = [i \in 1..found |-> i]
        /\ total_files' = found
        /\ fstate' = [i \in 1..found |-> "new"]
        /\ attempts' = [i \in 1..found |-> 0]
    /\ cpc' = "open_csv"
    /\ UNCHANGED <<workers, yielded, cur, result, csv_state, manifest, appenders,
                   errors, processed, task_total, task_completed, notified>>
    /\ UNCHANGED moveVars

\* lines 64-67: the manifest is opened for writing and the header written
OpenManifest ==
    /\ cpc = "open_csv"
    /\ csv_state' = "open"
    /\ manifest' = <<>>
    /\ cpc' = "add_task"
    /\ UNCHANGED <<workers, file_paths, total_files, fstate, attempts, yielded, cur,
                   result, appenders, errors, processed, task_total, task_completed,
                   notified>>
    /\ UNCHANGED moveVars

\* lines 80-84: the progress task is created with total=total_files
AddTask ==
    /\ cpc = "add_task"
    /\ task_total' = total_files
    /\ task_completed' = 0
    /\ processed' = 0
    /\ cpc' = "submit"
    /\ UNCHANGED <<workers, file_paths, total_files, fstate, attempts, yielded, cur,
                   result, csv_state, manifest, appenders, errors, notified>>
    /\ UNCHANGED moveVars

\* line 86: executor.submit(process_file, path) for the next path of the list
Submit ==
    /\ cpc = "submit"
    /\ \E i \in 1..Len(file_paths) :
        /\ fstate[file_paths[i]] = "new"
        /\ \A j \in 1..(i - 1) : fstate[file_paths[j]] # "new"
        /\ fstate' = [fstate EXCEPT ![file_paths[i]] = "queued"]
    /\ UNCHANGED <<cpc, workers, file_paths, total_files, attempts, yielded, cur,
                   result, csv_state, manifest, appenders, errors, processed,
                   task_total, task_completed, notified>>
    /\ UNCHANGED moveVars

\* line 86 -> 87: the dict comprehension is exhausted, as_completed starts
SubmitDone ==
    /\ cpc = "submit"
    /\ \A p \in Paths : fstate[p] # "new"
    /\ cpc' = "collect"
    /\ UNCHANGED <<workers, file_paths, total_files, fstate, attempts, yielded, cur,
                   result, csv_state, manifest, appenders, errors, processed,
                   task_total, task_completed, notified>>
    /\ UNCHANGED moveVars

PoolUnbounded == TRUE

\* line 85: ThreadPoolExecutor(max_workers=workers) runs at most `workers`
\* calls of process_file at a time
PoolHasIdleWorker == Cardinality(Running) < workers

\* a pool thread takes a queued call and enters process_file (lines 43-47)
WorkerStart(p) ==
    /\ fstate[p] = "queued"
    /\ PoolHasIdleWorker
    /\ fstate' = [fstate EXCEPT ![p] = "stat"]
    /\ attempts' = [attempts EXCEPT ![p] = @ + 1]
    /\ UNCHANGED <<cpc, workers, file_paths, total_files, yielded, cur, result,
                   csv_state, manifest, appenders, errors, processed, task_total,
                   task_completed, notified>>
    /\ UNCHANGED moveVars

\* lines 45-49: getsize, getctime, getmtime succeed and the file is opened
WorkerOpen(p) ==
    /\ fstate[p] = "stat"
    /\ fstate' = [fstate EXCEPT ![p] = "open"]
    /\ UNCHANGED <<cpc, workers, file_paths, total_files, attempts, yielded, cur,
                   result, csv_state, manifest, appenders, errors, processed,
                   task_total, task_completed, notified>>
    /\ UNCHANGED moveVars

\* a worker that writes the row itself instead of returning it
ReturnRecord_SelfWrite(p) ==
    /\ fstate' = [fstate EXCEPT ![p] = "ok"]
    /\ appenders' = appenders \cup {p}
    /\ UNCHANGED <<manifest, errors>>

\* lines 52-59: the file was read to its end, the record is returned
ReturnRecord(p) ==
    /\ fstate' = [fstate EXCEPT ![p] = "ok"]
    /\ UNCHANGED <<manifest, appenders, errors>>

\* lines 50-59: the chunks are read, the with block closes the file
WorkerFinish(p) ==
    /\ fstate[p] = "open"
    /\ ReturnRecord(p)
    /\ UNCHANGED <<cpc, workers, file_paths, total_files, attempts, yielded, cur,
                   result, csv_state, processed, task_total, task_completed,
                   notified>>
    /\ UNCHANGED moveVars

\* an except clause that swallows the error without reporting it
HandleError_Silent(p) ==
    /\ fstate' = [fstate EXCEPT ![p] = "fail"]
    /\ UNCHANGED errors

\* lines 60-62: the exception is logged and None returned
HandleError(p) ==
    /\ fstate' = [fstate EXCEPT ![p] = "fail"]
    /\ errors' = Append(errors, p)

\* lines 45-51 raise (stat, open or read error): the file, if open, is closed
WorkerFail(p) ==
    /\ fstate[p] \in {"stat", "open"}
    /\ HandleError(p)
    /\ UNCHANGED <<cpc, workers, file_paths, total_files, attempts, yielded, cur,
                   result, csv_state, manifest, appenders, processed, task_total,
                   task_completed, notified>>
    /\ UNCHANGED moveVars

\* a process_file without its try/except: future.result() re-raises in the
\* main thread and the loop is left
TakeResult_Raise(p) ==
    IF fstate[p] = "ok"
    THEN /\ result' = "record"
         /\ processed' = processed + 1
         /\ cpc' = "write"
    ELSE /\ result' = "none"
         /\ processed' = processed
         /\ cpc' = "shutdown"

\* lines 88-92: result = future.result(); processed += 1; if result:
TakeResult(p) ==
    /\ result' = IF fstate[p] = "ok" THEN "record" ELSE "none"
    /\ processed' = processed + 1
    /\ cpc' = IF fstate[p] = "ok" THEN "write" ELSE "update"

\* line 87: as_completed yields a finished future not yielded before
AsCompleted ==
    /\ cpc = "collect"
    /\ \E p \in Finished \ yielded :
        /\ yielded' = yielded \cup {p}
        /\ cur' = p
        /\ TakeResult(p)
    /\ UNCHANGED <<workers, file_paths, total_files, fstate, attempts, csv_state,
                   manifest, appenders, errors, task_total, task_completed,
                   notified>>
    /\ UNCHANGED moveVars

\* line 93: the main thread enters writer.writerow(result)
WriteRowBegin ==
    /\ cpc = "write"
    /\ appenders' = appenders \cup {MAIN}
    /\ cpc' = "writing"
    /\ UNCHANGED <<workers, file_paths, total_files, fstate, attempts, yielded, cur,
                   result, csv_state, manifest, errors, processed, task_total,
                   task_completed, notified>>
    /\ UNCHANGED moveVars

\* line 93: writer.writerow(result) returns, the row is in the manifest
WriteRowEnd ==
    /\ cpc = "writing"
    /\ manifest' = Append(manifest, cur)
    /\ appenders' = appenders \ {MAIN}
    /\ cpc' = "update"
    /\ UNCHANGED <<workers, file_paths, total_files, fstate, attempts, yielded, cur,
                   result, csv_state, errors, processed, task_total,
                   task_completed, notified>>
    /\ UNCHANGED moveVars

\* the update moved under `if result:`: only successes advance the task
Advance_OnlyOnRecord ==
    /\ task_completed' = IF result = "record" THEN task_completed + 1
                         ELSE task_completed
    /\ notified' = IF result = "record" THEN Append(notified, task_completed + 1)
                   ELSE notified

\* line 94: progress.update(task, advance=1, ...)
Advance ==
    /\ task_completed' = task_completed + 1
    /\ notified' = Append(notified, task_completed + 1)

\* line 94, then back to the head of the as_completed loop
ProgressUpdate ==
    /\ cpc = "update"
    /\ Advance
    /\ cur' = 0
    /\ cpc' = "collect"
    /\ UNCHANGED <<workers, file_paths, total_files, fstate, attempts, yielded,
                   result, csv_state, manifest, appenders, errors, processed,
                   task_total>>
    /\ UNCHANGED moveVars

\* a loop that is left after the first future (a stray break)
CollectDone_Early ==
    /\ cpc = "collect"
    /\ yielded # {} \/ Paths = {}
    /\ cpc' = "shutdown"
    /\ UNCHANGED <<workers, file_paths, total_files, fstate, attempts, yielded, cur,
                   result, csv_state, manifest, appenders, errors, processed,
                   task_total, task_completed, notified>>
    /\ UNCHANGED moveVars

\* line 87: as_completed is exhausted once every future was yielded
CollectDone ==
    /\ cpc = "collect"
    /\ yielded = Paths
    /\ cpc' = "shutdown"
    /\ UNCHANGED <<workers, file_paths, total_files, fstate, attempts, yielded, cur,
                   result, csv_state, manifest, appenders, errors, processed,
                   task_total, task_completed, notified>>
    /\ UNCHANGED moveVars

\* line 85: leaving the with block is executor.shutdown(wait=True)
Shutdown ==
    /\ cpc = "shutdown"
    /\ \A p \in Paths : fstate[p] \in {"ok", "fail"}
    /\ cpc' = "close"
    /\ UNCHANGED <<workers, file_paths, total_files, fstate, attempts, yielded, cur,
                   result, csv_state, manifest, appenders, errors, processed,
                   task_total, task_completed, notified>>
    /\ UNCHANGED moveVars

\* lines 64 and 96: leaving the outer with block closes the manifest
CloseManifest ==
    /\ cpc = "close"
    /\ csv_state' = "closed"
    /\ cpc' = "done"
    /\ UNCHANGED <<workers, file_paths, total_files, fstate, attempts, yielded, cur,
                   result, manifest, appenders, errors, processed, task_total,
                   task_completed, notified>>
    /\ UNCHANGED moveVars

CFLNext ==
    \/ Scan
    \/ OpenManifest
    \/ AddTask
    \/ Submit
    \/ SubmitDone
    \/ \E p \in Paths : WorkerStart(p)
    \/ \E p \in Paths : WorkerOpen(p)
    \/ \E p \in Paths : WorkerFinish(p)
    \/ \E p \in Paths : WorkerFail(p)
    \/ AsCompleted
    \/ WriteRowBegin
    \/ WriteRowEnd
    \/ ProgressUpdate
    \/ CollectDone
    \/ Shutdown
    \/ CloseManifest

\* ================= move_duplicates and flatten_directory ================
\* ------------------------------------------------- names, paths, entries
\* A file or directory name is its sequence of characters; a path is the
\* sequence of the names from the common root <<>> down to the entry.
N_a == <<"a">>
N_b == <<"b">>
N_d == <<"d">>
N_s == <<"s">>
N_t == <<"t">>
N_x_t == <<"x", ".", "t">>
N_x_1_t == <<"x", "_", "1", ".", "t">>

ROOT == <<>>

\* os.path.basename, os.path.dirname, os.path.join
basename(p) == p[Len(p)]
dirname(p) == SubSeq(p, 1, Len(p) - 1)
join(d, name) == Append(d, name)

LastDot(s) ==
    LET D == {i \in 1..Len(s) : s[i] = "."}
    IN  IF D = {} THEN 0 ELSE CHOOSE i \in D : \A j \in D : j <= i

\* os.path.splitext: the extension starts at the last dot, unless only dots
\* precede it
splitext(s) ==
    LET d == LastDot(s)
    IN  IF d > 0 /\ (\E i \in 1..(d - 1) : s[i] # ".")
        THEN [name |-> SubSeq(s, 1, d - 1), ext |-> SubSeq(s, d, Len(s))]
        ELSE [name |-> s, ext |-> <<>>]

Digit(k) == <<"0", "1", "2", "3", "4", "5", "6", "7", "8", "9">>[k + 1]

\* the decimal rendering of n in an f-string
RECURSIVE str(_)
str(k) == IF k < 10 THEN <<Digit(k)>> ELSE Append(str(k \div 10), Digit(k % 10))

\* a suffix rule that forgets the counter
SuffixedName_Fixed(name, k, ext) == name \o <<"_">> \o str(1) \o ext

\* f"{name}_{n}{ext}"
SuffixedName(name, k, ext) == name \o <<"_">> \o str(k) \o ext

Dir == [kind |-> "dir", data |-> 0]
File(c) == [kind |-> "file", data |-> c]

\* os.path.exists
exists(f, p) == p \in DOMAIN f

Put(f, p, e) == [q \in (DOMAIN f) \cup {p} |-> IF q = p THEN e ELSE f[q]]
Del(f, p) == [q \in (DOMAIN f) \ {p} |-> f[q]]

\* os.rename as shutil.move calls it: dst takes the entry, src is gone
rename(f, src, dst) == Put(Del(f, src), dst, f[src])
\* shutil.copy2: dst holds a copy of src's data
copy2(f, src, dst) == Put(f, dst, f[src])
\* os.remove
remove(f, src) == Del(f, src)
\* os.makedirs(d, exist_ok=True), for a directory directly under the root
makedirs(f, d) == IF exists(f, d) THEN f ELSE Put(f, d, Dir)

\* the entries directly inside directory d
Children(f, d) == {q \in DOMAIN f : q # ROOT /\ dirname(q) = d}

\* the initial tree that holds the given files: every directory above a
\* file exists
Prefixes(p) == {SubSeq(p, 1, k) : k \in 0..(Len(p) - 1)}
TreeOf(files) ==
    LET dirs == UNION {Prefixes(p) : p \in DOMAIN files} \cup {ROOT}
    IN  [q \in dirs \cup DOMAIN files |-> IF q \in DOMAIN files THEN files[q] ELSE Dir]

\* an I/O call may raise only while the fault budget lasts
CanFail == faults < MaxFaults

Last(seq) == seq[Len(seq)]

Range(seq) == {seq[i] : i \in 1..Len(seq)}

Event(lvl, msg) ==
    [src |-> src_path, dst |-> dest_path, lvl |-> lvl, msg |-> msg, io |-> io]

\* ------------------------------------------------------- move_duplicates
duplicates_dir == <<N_d>>

\* the paths a manifest may list, each a file with its own data
MDPool == << <<N_a, N_x_t>>, <<N_b, N_x_t>>, <<N_b, N_x_1_t>>, <<N_d, N_x_t>> >>
Hashes == {"h1", "h2"}

\* entries that may lie in duplicates_dir without being listed
MDExtra == {<<N_d, N_x_t>>, <<N_d, N_x_1_t>>}


PoolIndex(p) == CHOOSE i \in 1..Len(MDPool) : MDPool[i] = p
ExtraData(p) == IF p = <<N_d, N_x_t>> THEN 8 ELSE 9

\* manifests as create_file_list writes them: one row per path.  Hashes
\* are named in the order they appear, and of a/x.t and b/x.t, which differ
\* only in the name of their directory, a/x.t is listed first
Manifests ==
    {m \in UNION {[1..k -> [xxhash : Hashes, full_path : Range(MDPool)]] : k \in 0..MaxRows} :
        /\ \A i, j \in 1..Len(m) : i # j => m[i].full_path # m[j].full_path
        /\ Len(m) > 0 => m[1].xxhash = "h1"
        /\ \A j \in 1..Len(m) : m[j].full_path = MDPool[2] =>
                \E i \in 1..(j - 1) : m[i].full_path = MDPool[1]}

\* the keys of hash_to_files in insertion order: each hash where it first
\* appears
RECURSIVE HashOrder(_)
HashOrder(rows) ==
    IF rows = <<>> THEN <<>>
    ELSE LET front == HashOrder(SubSeq(rows, 1, Len(rows) - 1))
             h == rows[Len(rows)].xxhash
         IN  IF h \in Range(front) THEN front ELSE Append(front, h)

\* a reader that drops the rows whose file is gone
RECURSIVE FilesOf_Existing(_, _)
FilesOf_Existing(rows, h) ==
    IF rows = <<>> THEN <<>>
    ELSE LET front == FilesOf_Existing(SubSeq(rows, 1, Len(rows) - 1), h)
             r == rows[Len(rows)]
         IN  IF r.xxhash = h /\ exists(fs, r.full_path)
             THEN Append(front, r.full_path) ELSE front

\* lines 111-112: hash_to_files[row['xxhash']].append(row['full_path'])
RECURSIVE FilesOf(_, _)
FilesOf(rows, h) ==
    IF rows = <<>> THEN <<>>
    ELSE LET front == FilesOf(SubSeq(rows, 1, Len(rows) - 1), h)
             r == rows[Len(rows)]
         IN  IF r.xxhash = h THEN Append(front, r.full_path) ELSE front

\* a grouping that puts each new path in front: the last row is kept
GroupBy_LastFirst(rows) ==
    LET hs == HashOrder(rows)
        rev(fl) == [k \in 1..Len(fl) |-> fl[Len(fl) + 1 - k]]
    IN  [i \in 1..Len(hs) |-> rev(FilesOf(rows, hs[i]))]

\* lines 108-112: the groups, in the insertion order of the dict
GroupBy(rows) ==
    LET hs == HashOrder(rows)
    IN  [i \in 1..Len(hs) |-> FilesOf(rows, hs[i])]

Candidates_All(files) == files

\* line 119: files[1:], the first file is kept
Candidates(files) == Tail(files)

MDInit ==
    /\ cmd = "move_duplicates"
    /\ mpc = "start"
    /\ csv_rows \in Manifests
    /\ LET listed == {csv_rows[i].full_path : i \in 1..Len(csv_rows)}
       IN  \E extra \in SUBSET MDExtra, gone \in SUBSET listed :
            fs = TreeOf([p \in (listed \ gone) \cup extra |->
                            IF p \in listed THEN File(PoolIndex(p))
                            ELSE File(ExtraData(p))])
    /\ fs0 = fs
    /\ faults = 0
    /\ run = 1
    /\ hash_to_files = <<>>
    /\ gi = 1
    /\ fi = 1
    /\ file_list = <<>>
    /\ idx = 1
    /\ src_path = <<>>
    /\ dest_path = <<>>
    /\ n = 1
    /\ io = <<>>
    /\ orig = Dir
    /\ moved_count = 0
    /\ events = <<>>
    /\ kept = <<>>
    /\ history = <<>>
    /\ fd_task = [total |-> 0, completed |-> 0]
    /\ rm_queue = <<>>
    /\ rm_log = <<>>

\* csv.DictReader gives a row that is shorter than the header the value
\* None for every missing field
None == "None"

\* manifests that create_file_list did not write: some row breaks off
\* before the xxhash field, or the header has no xxhash column at all
MalformedManifests ==
    LET distinct(m) == \A i, j \in 1..Len(m) : i # j => m[i].full_path # m[j].full_path
    IN  {m \in UNION {[1..k -> [xxhash : Hashes \cup {None}, full_path : Range(MDPool)]] :
                        k \in 1..MaxRows} :
            distinct(m) /\ \E i \in 1..Len(m) : m[i].xxhash = None}
        \cup
        {m \in UNION {[1..k -> [full_path : Range(MDPool)]] : k \in 1..MaxRows} :
            distinct(m)}

\* move_duplicates given such a manifest; every listed file is there
MalformedInit ==
    /\ cmd = "move_duplicates"
    /\ mpc = "start"
    /\ csv_rows \in MalformedManifests
    /\ LET listed == {csv_rows[i].full_path : i \in 1..Len(csv_rows)}
       IN  fs = TreeOf([p \in listed |-> File(PoolIndex(p))])
    /\ fs0 = fs
    /\ faults = 0
    /\ run = 1
    /\ hash_to_files = <<>>
    /\ gi = 1
    /\ fi = 1
    /\ file_list = <<>>
    /\ idx = 1
    /\ src_path = <<>>
    /\ dest_path = <<>>
    /\ n = 1
    /\ io = <<>>
    /\ orig = Dir
    /\ moved_count = 0
    /\ events = <<>>
    /\ kept = <<>>
    /\ history = <<>>
    /\ fd_task = [total |-> 0, completed |-> 0]
    /\ rm_queue = <<>>
    /\ rm_log = <<>>

mdFrame == <<cmd, csv_rows, file_list, idx, fd_task, rm_queue, rm_log, cflVars>>

\* line 112: row['xxhash'] and row['full_path'] raise KeyError when the
\* header does not name the column
HasKeys(row) == {"xxhash", "full_path"} \subseteq DOMAIN row

\* lines 105-115: makedirs, read the manifest, group, moved_count = 0; a
\* KeyError while reading ends the command
MD_Start ==
    /\ cmd = "move_duplicates" /\ mpc = "start"
    /\ fs' = makedirs(fs, duplicates_dir)
    /\ fs0' = fs
    /\ IF \A i \in 1..Len(csv_rows) : HasKeys(csv_rows[i])
       THEN /\ hash_to_files' = GroupBy(csv_rows)
            /\ mpc' = "group"
       ELSE /\ hash_to_files' = <<>>
            /\ mpc' = "crashed"
    /\ moved_count' = 0
    /\ gi' = 1
    /\ UNCHANGED <<faults, run, fi, src_path, dest_path, n, io, orig, events, kept,
                   history>>
    /\ UNCHANGED mdFrame

\* lines 116-118: the next group; one with a single file is passed over
MD_Group ==
    /\ cmd = "move_duplicates" /\ mpc = "group"
    /\ gi <= Len(hash_to_files)
    /\ IF Len(hash_to_files[gi]) > 1
       THEN /\ kept' = Append(kept, hash_to_files[gi][1])
            /\ fi' = 1
            /\ mpc' = "file"
            /\ gi' = gi
       ELSE /\ gi' = gi + 1
            /\ UNCHANGED <<kept, fi, mpc>>
    /\ UNCHANGED <<fs, faults, run, hash_to_files, src_path, dest_path, n, io, orig,
                   moved_count, events, history>>
    /\ UNCHANGED <<fs0, mdFrame>>

\* line 119: the inner loop has no candidate left
MD_GroupEnd ==
    /\ cmd = "move_duplicates" /\ mpc = "file"
    /\ fi > Len(Candidates(hash_to_files[gi]))
    /\ gi' = gi + 1
    /\ mpc' = "group"
    /\ UNCHANGED <<fs, faults, run, hash_to_files, fi, src_path, dest_path, n, io,
                   orig, moved_count, events, kept, history>>
    /\ UNCHANGED <<fs0, mdFrame>>

\* lines 119-122: the candidate is not there: warning, continue
MD_Missing ==
    /\ cmd = "move_duplicates" /\ mpc = "file"
    /\ fi <= Len(Candidates(hash_to_files[gi]))
    /\ LET file_path == Candidates(hash_to_files[gi])[fi]
       IN  /\ ~exists(fs, file_path)
           /\ events' = Append(events, [src |-> file_path, dst |-> <<>>,
                                        lvl |-> "warning", msg |-> "File not found",
                                        io |-> <<>>])
    /\ fi' = fi + 1
    /\ UNCHANGED <<fs, faults, run, hash_to_files, gi, mpc, src_path, dest_path, n,
                   io, orig, moved_count, kept, history>>
    /\ UNCHANGED <<fs0, mdFrame>>

\* lines 119-127: the candidate exists; the first destination is its own
\* base name in duplicates_dir
MD_PickDest ==
    /\ cmd = "move_duplicates" /\ mpc = "file"
    /\ fi <= Len(Candidates(hash_to_files[gi]))
    /\ LET file_path == Candidates(hash_to_files[gi])[fi]
       IN  /\ exists(fs, file_path)
           /\ src_path' = file_path
           /\ orig' = fs[file_path]
           /\ dest_path' = join(duplicates_dir, basename(file_path))
    /\ n' = 1
    /\ io' = <<>>
    /\ mpc' = "probe"
    /\ UNCHANGED <<fs, faults, run, hash_to_files, gi, fi, moved_count, events, kept,
                   history>>
    /\ UNCHANGED <<fs0, mdFrame>>

\* lines 129-132: the destination exists, try the next suffix
MD_Probe ==
    /\ cmd = "move_duplicates" /\ mpc = "probe"
    /\ exists(fs, dest_path)
    /\ LET se == splitext(basename(src_path))
       IN  dest_path' = join(duplicates_dir, SuffixedName(se.name, n, se.ext))
    /\ n' = n + 1
    /\ UNCHANGED <<fs, faults, run, hash_to_files, gi, fi, mpc, src_path, io, orig,
                   moved_count, events, kept, history>>
    /\ UNCHANGED <<fs0, mdFrame>>

\* a handler that lets the exception escape: the command ends
MD_ItemDone_Abort(ev) ==
    /\ events' = Append(events, ev)
    /\ moved_count' = moved_count
    /\ fi' = fi
    /\ mpc' = IF ev.lvl = "error" THEN "done" ELSE "file"

\* line 145 and back to line 119: the item is reported, moved_count += 1
MD_ItemDone(ev) ==
    /\ events' = Append(events, ev)
    /\ moved_count' = moved_count + 1
    /\ fi' = fi + 1
    /\ mpc' = "file"

\* lines 133-136, 143-145: shutil.move(file_path, dest_path).  It renames;
\* when the rename is refused it copies and unlinks itself, so a
\* PermissionError can leave the copy behind
MD_Move ==
    /\ cmd = "move_duplicates" /\ mpc = "probe"
    /\ ~exists(fs, dest_path)
    /\ \/ /\ fs' = rename(fs, src_path, dest_path)
          /\ io' = Append(io, "move_ok")
          /\ MD_ItemDone([Event("info", "Moved duplicate") EXCEPT !.io = io'])
          /\ UNCHANGED faults
       \/ /\ CanFail
          /\ fs' \in {fs, copy2(fs, src_path, dest_path)}
          /\ io' = Append(io, "move_perm")
          /\ faults' = faults + 1
          /\ mpc' = "copy"
          /\ UNCHANGED <<fi, moved_count, events>>
       \/ /\ CanFail
          /\ fs' = fs
          /\ io' = Append(io, "move_err")
          /\ faults' = faults + 1
          /\ MD_ItemDone([Event("error", "Failed to move") EXCEPT !.io = io'])
    /\ UNCHANGED <<run, hash_to_files, gi, src_path, dest_path, n, orig, kept, history>>
    /\ UNCHANGED <<fs0, mdFrame>>

\* a fallback that deletes the original before it copies
MD_Copy_RemoveFirst ==
    /\ cmd = "move_duplicates" /\ mpc = "copy"
    /\ \/ /\ fs' = remove(copy2(fs, src_path, dest_path), src_path)
          /\ io' = Append(io, "copy_ok")
          /\ mpc' = "remove"
          /\ UNCHANGED <<faults, fi, moved_count, events>>
       \/ /\ CanFail
          /\ fs' = remove(fs, src_path)
          /\ io' = Append(io, "copy_err")
          /\ faults' = faults + 1
          /\ MD_ItemDone([Event("error", "Failed to copy+remove") EXCEPT !.io = io'])
    /\ UNCHANGED <<run, hash_to_files, gi, src_path, dest_path, n, orig, kept, history>>
    /\ UNCHANGED <<fs0, mdFrame>>

\* lines 137-138, 141-142, 145: shutil.copy2(file_path, dest_path)
MD_Copy ==
    /\ cmd = "move_duplicates" /\ mpc = "copy"
    /\ \/ /\ fs' = copy2(fs, src_path, dest_path)
          /\ io' = Append(io, "copy_ok")
          /\ mpc' = "remove"
          /\ UNCHANGED <<faults, fi, moved_count, events>>
       \/ /\ CanFail
          /\ fs' = fs
          /\ io' = Append(io, "copy_err")
          /\ faults' = faults + 1
          /\ MD_ItemDone([Event("error", "Failed to copy+remove") EXCEPT !.io = io'])
    /\ UNCHANGED <<run, hash_to_files, gi, src_path, dest_path, n, orig, kept, history>>
    /\ UNCHANGED <<fs0, mdFrame>>

\* lines 139-142, 145: os.remove(file_path), in the same try as the copy
MD_Remove ==
    /\ cmd = "move_duplicates" /\ mpc = "remove"
    /\ \/ /\ fs' = remove(fs, src_path)
          /\ io' = Append(io, "remove_ok")
          /\ MD_ItemDone([Event("info", "Copied and removed (move fallback)")
                            EXCEPT !.io = io'])
          /\ UNCHANGED faults
       \/ /\ CanFail
          /\ fs' = fs
          /\ \E r \in {"remove_perm", "remove_err"} : io' = Append(io, r)
          /\ faults' = faults + 1
          /\ MD_ItemDone([Event("error", "Failed to copy+remove") EXCEPT !.io = io'])
    /\ UNCHANGED <<run, hash_to_files, gi, src_path, dest_path, n, orig, kept, history>>
    /\ UNCHANGED <<fs0, mdFrame>>

\* lines 115, 145-146: the counts the command keeps and reports
Counts == [moved |-> moved_count]

\* line 146: every group was visited, the total is logged
MD_Finish ==
    /\ cmd = "move_duplicates" /\ mpc = "group"
    /\ gi > Len(hash_to_files)
    /\ mpc' = "done"
    /\ UNCHANGED <<fs, faults, run, hash_to_files, gi, fi, src_path, dest_path, n,
                   io, orig, moved_count, events, kept, history>>
    /\ UNCHANGED <<fs0, mdFrame>>

\* the command is invoked again on the same csv_file
MD_Rerun ==
    /\ cmd = "move_duplicates" /\ mpc = "done"
    /\ run < MaxRuns
    /\ run' = run + 1
    /\ history' = Append(history, [kept |-> kept, events |-> events,
                                   moved_count |-> moved_count])
    /\ kept' = <<>>
    /\ events' = <<>>
    /\ mpc' = "start"
    /\ UNCHANGED <<fs, faults, hash_to_files, gi, fi, src_path, dest_path, n, io,
                   orig, moved_count>>
    /\ UNCHANGED <<fs0, mdFrame>>

MDNext ==
    \/ MD_Start
    \/ MD_Group
    \/ MD_GroupEnd
    \/ MD_Missing
    \/ MD_PickDest
    \/ MD_Probe
    \/ MD_Move
    \/ MD_Copy
    \/ MD_Remove
    \/ MD_Finish
    \/ MD_Rerun

\* ----------------------------------------------------- flatten_directory
target_dir == ROOT

\* the files a tree may hold below its subdirectories, and directly in it
FDNested == {<<N_s, N_x_t>>, <<N_s, N_t, N_x_t>>, <<N_b, N_x_1_t>>, <<N_s, N_s>>}
FDRootFiles == {<<N_x_t>>, <<N_x_1_t>>}

FDData(p) ==
    CASE p = <<N_s, N_x_t>> -> 1
      [] p = <<N_s, N_t, N_x_t>> -> 2
      [] p = <<N_b, N_x_1_t>> -> 3
      [] p = <<N_s, N_s>> -> 4
      [] p = <<N_x_t>> -> 8
      [] OTHER -> 9

FilesIn(f, d) == {q \in Children(f, d) : f[q].kind = "file"}
DirsIn(f, d) == {q \in Children(f, d) : f[q].kind = "dir"}

\* the orders in which a directory listing may come
Perms(S) == {seq \in [1..Cardinality(S) -> S] : \A i, j \in 1..Cardinality(S) :
                                                    i # j => seq[i] # seq[j]}

\* os.walk(top) top-down: a directory's files, then its subdirectories'
\* subtrees one after the other
RECURSIVE WalkBelow(_, _), WalkDirs(_, _)
\* a walk that lists a directory's files and does not descend
WalkBelow_Flat(f, d) == Perms(FilesIn(f, d))

WalkBelow(f, d) ==
    {fl \o r : fl \in Perms(FilesIn(f, d)),
               r \in UNION {WalkDirs(f, P) : P \in Perms(DirsIn(f, d))}}
WalkDirs(f, P) ==
    IF P = <<>> THEN {<<>>}
    ELSE {a \o b : a \in WalkBelow(f, Head(P)), b \in WalkDirs(f, Tail(P))}

\* a walk that does not skip the top level
NestedFiles_WithTop(f) == WalkBelow(f, target_dir)

\* lines 155-161: the files below target_dir, those directly in it skipped
NestedFiles(f) == UNION {WalkDirs(f, P) : P \in Perms(DirsIn(f, target_dir))}

\* os.walk(top, topdown=False) with the rmdir of lines 207-210: when a
\* directory is yielded, after its subtrees, its subdirectories are removed
RECURSIVE RmBelow(_, _), RmDirs(_, _)
\* a walk that yields a directory before its subtrees
RmBelow_TopDown(f, d) ==
    UNION {{P \o r : r \in RmDirs(f, P)} : P \in Perms(DirsIn(f, d))}

RmBelow(f, d) ==
    UNION {{r \o P : r \in RmDirs(f, P)} : P \in Perms(DirsIn(f, d))}
RmDirs(f, P) ==
    IF P = <<>> THEN {<<>>}
    ELSE {a \o b : a \in RmBelow(f, Head(P)), b \in RmDirs(f, Tail(P))}

FDInit ==
    /\ cmd = "flatten_directory"
    /\ mpc = "start"
    /\ \E nested \in SUBSET FDNested, top \in SUBSET FDRootFiles :
        /\ Cardinality(nested) <= MaxNested
        /\ fs = TreeOf([p \in nested \cup top |-> File(FDData(p))])
    /\ fs0 = fs
    /\ faults = 0
    /\ run = 1
    /\ csv_rows = <<>>
    /\ hash_to_files = <<>>
    /\ gi = 1
    /\ fi = 1
    /\ file_list = <<>>
    /\ idx = 1
    /\ src_path = <<>>
    /\ dest_path = <<>>
    /\ n = 1
    /\ io = <<>>
    /\ orig = Dir
    /\ moved_count = 0
    /\ events = <<>>
    /\ kept = <<>>
    /\ history = <<>>
    /\ fd_task = [total |-> 0, completed |-> 0]
    /\ rm_queue = <<>>
    /\ rm_log = <<>>

fdFrame == <<cmd, fs0, run, csv_rows, hash_to_files, gi, fi, kept, history, cflVars>>

\* lines 155-164, 175: collect the files, moved_count = 0, add the task
FD_Scan ==
    /\ cmd = "flatten_directory" /\ mpc = "start"
    /\ file_list' \in NestedFiles(fs)
    /\ moved_count' = 0
    /\ fd_task' = [total |-> Len(file_list'), completed |-> 0]
    /\ idx' = 1
    /\ mpc' = "item"
    /\ UNCHANGED <<fs, faults, src_path, dest_path, n, io, orig, events, rm_queue,
                   rm_log>>
    /\ UNCHANGED fdFrame

\* lines 176-181: the next file; the first destination is its own base
\* name in target_dir
FD_PickDest ==
    /\ cmd = "flatten_directory" /\ mpc = "item"
    /\ idx <= Len(file_list)
    /\ src_path' = file_list[idx]
    /\ orig' = fs[file_list[idx]]
    /\ dest_path' = join(target_dir, basename(file_list[idx]))
    /\ n' = 1
    /\ io' = <<>>
    /\ mpc' = "probe"
    /\ UNCHANGED <<fs, faults, file_list, idx, moved_count, events, fd_task, rm_queue,
                   rm_log>>
    /\ UNCHANGED fdFrame

\* lines 182-185: the destination exists, try the next suffix
FD_Probe ==
    /\ cmd = "flatten_directory" /\ mpc = "probe"
    /\ exists(fs, dest_path)
    /\ LET se == splitext(basename(src_path))
       IN  dest_path' = join(target_dir, SuffixedName(se.name, n, se.ext))
    /\ n' = n + 1
    /\ UNCHANGED <<fs, faults, file_list, idx, mpc, src_path, io, orig, moved_count,
                   events, fd_task, rm_queue, rm_log>>
    /\ UNCHANGED fdFrame

\* lines 203-204 and back to line 176: the item is reported,
\* moved_count += 1, progress.update(task, advance=1)
FD_ItemDone(ev) ==
    /\ events' = Append(events, ev)
    /\ moved_count' = moved_count + 1
    /\ fd_task' = [fd_task EXCEPT !.completed = @ + 1]
    /\ idx' = idx + 1
    /\ mpc' = "item"

\* lines 186-189, 201-204: shutil.move(src_path, dest_path)
FD_Move ==
    /\ cmd = "flatten_directory" /\ mpc = "probe"
    /\ ~exists(fs, dest_path)
    /\ \/ /\ fs' = rename(fs, src_path, dest_path)
          /\ io' = Append(io, "move_ok")
          /\ FD_ItemDone([Event("info", "Moved") EXCEPT !.io = io'])
          /\ UNCHANGED faults
       \/ /\ CanFail
          /\ fs' \in {fs, copy2(fs, src_path, dest_path)}
          /\ io' = Append(io, "move_perm")
          /\ faults' = faults + 1
          /\ mpc' = "copy"
          /\ UNCHANGED <<idx, moved_count, events, fd_task>>
       \/ /\ CanFail
          /\ fs' = fs
          /\ io' = Append(io, "move_err")
          /\ faults' = faults + 1
          /\ FD_ItemDone([Event("error", "Failed to move") EXCEPT !.io = io'])
    /\ UNCHANGED <<file_list, src_path, dest_path, n, orig, rm_queue, rm_log>>
    /\ UNCHANGED fdFrame

\* lines 190-191, 199-200, 203-204: shutil.copy2(src_path, dest_path)
FD_Copy ==
    /\ cmd = "flatten_directory" /\ mpc = "copy"
    /\ \/ /\ fs' = copy2(fs, src_path, dest_path)
          /\ io' = Append(io, "copy_ok")
          /\ mpc' = "remove"
          /\ UNCHANGED <<faults, idx, moved_count, events, fd_task>>
       \/ /\ CanFail
          /\ fs' = fs
          /\ io' = Append(io, "copy_err")
          /\ faults' = faults + 1
          /\ FD_ItemDone([Event("error", "Failed to copy") EXCEPT !.io = io'])
    /\ UNCHANGED <<file_list, src_path, dest_path, n, orig, rm_queue, rm_log>>
    /\ UNCHANGED fdFrame

\* lines 192-198, 203-204: os.remove(src_path) in its own try
FD_Remove ==
    /\ cmd = "flatten_directory" /\ mpc = "remove"
    /\ \/ /\ fs' = remove(fs, src_path)
          /\ io' = Append(io, "remove_ok")
          /\ FD_ItemDone([Event("info", "Copied and removed (move fallback)")
                            EXCEPT !.io = io'])
          /\ UNCHANGED faults
       \/ /\ CanFail
          /\ fs' = fs
          /\ io' = Append(io, "remove_perm")
          /\ faults' = faults + 1
          /\ FD_ItemDone([Event("warning", "Copied but could not delete original")
                            EXCEPT !.io = io'])
       \/ /\ CanFail
          /\ fs' = fs
          /\ io' = Append(io, "remove_err")
          /\ faults' = faults + 1
          /\ FD_ItemDone([Event("error", "Copied but failed to delete original")
                            EXCEPT !.io = io'])
    /\ UNCHANGED <<file_list, src_path, dest_path, n, orig, rm_queue, rm_log>>
    /\ UNCHANGED fdFrame

\* line 176 is exhausted; line 206 starts the bottom-up walk
FD_LoopEnd ==
    /\ cmd = "flatten_directory" /\ mpc = "item"
    /\ idx > Len(file_list)
    /\ rm_queue' \in RmBelow(fs, target_dir)
    /\ mpc' = "prune"
    /\ UNCHANGED <<fs, faults, file_list, idx, src_path, dest_path, n, io, orig,
                   moved_count, events, fd_task, rm_log>>
    /\ UNCHANGED fdFrame

\* lines 207-213: os.rmdir(dir_path); an OSError (not empty, or refused)
\* is passed over
FD_Rmdir ==
    /\ cmd = "flatten_directory" /\ mpc = "prune"
    /\ rm_queue # <<>>
    /\ LET dir_path == Head(rm_queue)
       IN  \/ /\ Children(fs, dir_path) = {}
              /\ fs' = Del(fs, dir_path)
              /\ rm_log' = Append(rm_log, [dir |-> dir_path, res |-> "removed"])
              /\ UNCHANGED faults
           \/ /\ Children(fs, dir_path) # {}
              /\ fs' = fs
              /\ rm_log' = Append(rm_log, [dir |-> dir_path, res |-> "not_empty"])
              /\ UNCHANGED faults
           \/ /\ CanFail
              /\ fs' = fs
              /\ rm_log' = Append(rm_log, [dir |-> dir_path, res |-> "refused"])
              /\ faults' = faults + 1
    /\ rm_queue' = Tail(rm_queue)
    /\ UNCHANGED <<file_list, idx, mpc, src_path, dest_path, n, io, orig, moved_count,
                   events, fd_task>>
    /\ UNCHANGED fdFrame

\* line 214: the walk is over, the total is logged
FD_Finish ==
    /\ cmd = "flatten_directory" /\ mpc = "prune"
    /\ rm_queue = <<>>
    /\ mpc' = "done"
    /\ UNCHANGED <<fs, faults, file_list, idx, src_path, dest_path, n, io, orig,
                   moved_count, events, fd_task, rm_queue, rm_log>>
    /\ UNCHANGED fdFrame

FDNext ==
    \/ FD_Scan
    \/ FD_PickDest
    \/ FD_Probe
    \/ FD_Move
    \/ FD_Copy
    \/ FD_Remove
    \/ FD_LoopEnd
    \/ FD_Rmdir
    \/ FD_Finish

\* ------------------------------------------------------- specifications
\* the other commands' variables while create_file_list runs
MoveIdle ==
    /\ cmd = "create_file_list"
    /\ mpc = "off"
    /\ fs = TreeOf(<<>>)
    /\ fs0 = fs
    /\ faults = 0
    /\ run = 1
    /\ csv_rows = <<>>
    /\ hash_to_files = <<>>
    /\ gi = 1
    /\ fi = 1
    /\ file_list = <<>>
    /\ idx = 1
    /\ src_path = <<>>
    /\ dest_path = <<>>
    /\ n = 1
    /\ io = <<>>
    /\ orig = Dir
    /\ moved_count = 0
    /\ events = <<>>
    /\ kept = <<>>
    /\ history = <<>>
    /\ fd_task = [total |-> 0, completed |-> 0]
    /\ rm_queue = <<>>
    /\ rm_log = <<>>

\* create_file_list's variables while another command runs
CFLIdle ==
    /\ cpc = "off"
    /\ workers = 1
    /\ file_paths = <<>>
    /\ total_files = 0
    /\ fstate = <<>>
    /\ attempts = <<>>
    /\ yielded = {}
    /\ cur = 0
    /\ result = "none"
    /\ csv_state = "unopened"
    /\ manifest = <<>>
    /\ appenders = {}
    /\ errors = <<>>
    /\ processed = 0
    /\ task_total = -1
    /\ task_completed = 0
    /\ notified = <<>>

CFLStart == CFLInit /\ MoveIdle

SpecCFL == CFLStart /\ [][CFLNext]_vars

\* the steps of the main thread, and those of the pool thread that runs
\* process_file for path p
MainStep ==
    \/ Scan
    \/ OpenManifest
    \/ AddTask
    \/ Submit
    \/ SubmitDone
    \/ AsCompleted
    \/ WriteRowBegin
    \/ WriteRowEnd
    \/ ProgressUpdate
    \/ CollectDone
    \/ Shutdown
    \/ CloseManifest

WorkerStep(p) ==
    /\ p \in Paths
    /\ \/ WorkerStart(p)
       \/ WorkerOpen(p)
       \/ WorkerFinish(p)
       \/ WorkerFail(p)

\* every thread that can take a step is scheduled in the end, and every
\* call on a file (stat, open, read) returns or raises
CFLFairness ==
    /\ WF_vars(MainStep)
    /\ \A p \in 1..MaxFiles : WF_vars(WorkerStep(p))

FairCFL == SpecCFL /\ CFLFairness

MoveInit == (MDInit \/ FDInit) /\ CFLIdle

MoveNext ==
    \/ MDNext
    \/ FDNext

SpecMove == MoveInit /\ [][MoveNext]_vars

MalformedStart == MalformedInit /\ CFLIdle

SpecMalformed == MalformedStart /\ [][MDNext]_vars

\* ------------------------- claims about move_duplicates and flatten_directory

\* the directory the running command relocates into
DestDir == IF cmd = "move_duplicates" THEN duplicates_dir ELSE target_dir

RelocatedMsgs == {"Moved duplicate", "Moved", "Copied and removed (move fallback)"}

\* the item just reported is the one src_path and orig describe
JustReported ==
    /\ mpc \in {"file", "item"}
    /\ events # <<>>
    /\ Last(events).src = src_path
    /\ Last(events).io # <<>>

\* the file that was at p when the run started is still there
KeeperInPlace(p) == exists(fs0, p) => exists(fs, p) /\ fs[p] = fs0[p]

\* the file that was at p when the run started has been relocated: an item
\* with source p was reported as moved into duplicates_dir, the data lies
\* in duplicates_dir where that item or a later one put it, and p is gone
\* or has since received another file
Relocated(p) ==
    /\ exists(fs0, p)
    /\ \E i \in 1..Len(events) :
        /\ events[i].src = p
        /\ events[i].msg \in RelocatedMsgs
        /\ events[i].dst # p
        /\ dirname(events[i].dst) = duplicates_dir
        /\ \E j \in i..Len(events) :
            /\ dirname(events[j].dst) = duplicates_dir
            /\ exists(fs, events[j].dst)
            /\ fs[events[j].dst] = fs0[p]
        /\ ~exists(fs, p) \/ (\E j \in (i + 1)..Len(events) : events[j].dst = p)

\* every candidate of the group was there when the run started and its
\* relocation completed
GroupClean(files) ==
    \A j \in 2..Len(files) :
        /\ exists(fs0, files[j])
        /\ \E i \in 1..Len(events) :
            events[i].src = files[j] /\ events[i].msg \in RelocatedMsgs

MDDone == cmd = "move_duplicates" /\ mpc = "done"

\* C6 as claimed: at the end of a move-duplicates run, in every group of
\* two or more paths the first is in place and all the others have been
\* relocated into the duplicates directory.
C6_AllDuplicatesRelocated ==
    (MDDone /\ run = 1) =>
        \A g \in 1..Len(hash_to_files) :
            LET files == hash_to_files[g]
            IN  Len(files) >= 2 =>
                    /\ KeeperInPlace(files[1])
                    /\ \A j \in 2..Len(files) : Relocated(files[j])

\* C6 amended: the first path of every group of two or more is left in
\* place whatever happens; when every other path of the group exists when
\* the run starts and its relocation completes (the move, or the copy and
\* the delete of the fallback), exactly those k-1 paths are relocated into
\* the duplicates directory.
C6_KeeperAndDuplicates ==
    MDDone =>
        \A g \in 1..Len(hash_to_files) :
            LET files == hash_to_files[g]
            IN  Len(files) >= 2 =>
                    /\ KeeperInPlace(files[1])
                    /\ \A i \in 1..Len(events) : events[i].src # files[1]
                    /\ GroupClean(files) =>
                        /\ \A j \in 2..Len(files) : Relocated(files[j])
                        /\ Cardinality({p \in Range(files) : Relocated(p)})
                                = Len(files) - 1

C6_Witness ==
    /\ MDDone /\ run = 1
    /\ \E g \in 1..Len(hash_to_files) :
        /\ Len(hash_to_files[g]) = 3
        /\ GroupClean(hash_to_files[g])
        /\ \E i \in 1..Len(events) : events[i].io = <<"move_perm", "copy_ok", "remove_ok">>

MovedSet(evs) == {evs[i].src : i \in {j \in 1..Len(evs) : evs[j].msg \in RelocatedMsgs}}
Considered(evs) == [i \in 1..Len(evs) |-> evs[i].src]

\* C7 as claimed: a second run over the same manifest selects the same
\* keepers and moves the same set of duplicates as the first.
C7_SameMoves ==
    (MDDone /\ run = 2) =>
        /\ history[1].kept = kept
        /\ MovedSet(history[1].events) = MovedSet(events)

\* C7 amended: every run over the same manifest selects the same keeper
\* for every group and considers the same duplicates in the same order,
\* whatever the earlier runs did to the file system; a duplicate that an
\* earlier run moved away is found missing, so the sets moved may differ.
C7_SameSelection ==
    MDDone =>
        \A r \in 1..Len(history) :
            /\ history[r].kept = kept
            /\ Considered(history[r].events) = Considered(events)

C7_Witness ==
    /\ MDDone /\ run = 2
    /\ kept # <<>>
    /\ MovedSet(history[1].events) # {}
    /\ \E i \in 1..Len(events) : events[i].msg = "File not found"
    /\ \E i \in 1..Len(events) : events[i].msg \in RelocatedMsgs

\* a step of a relocation leaves the entries of the destination alone
EntriesKept ==
    mpc \in {"probe", "copy", "remove"} =>
        \A q \in Children(fs, DestDir) : exists(fs', q) /\ fs'[q] = fs[q]

\* C8 as claimed: a relocation leaves every entry that was in the
\* destination directory before it in place, under the same name and with
\* the same content (names are the keys of the directory, so no two
\* entries ever share one).
C8_DestinationEntriesKept == [][EntriesKept]_vars

PartialIO(t) ==
    /\ Len(t) = 3
    /\ t[1] = "move_perm"
    /\ t[2] = "copy_ok"
    /\ t[3] \in {"remove_perm", "remove_err"}

\* C9 as claimed: in both commands, when the move is refused with
\* permission-denied, the copy succeeds and the delete fails, the item is
\* reported as a warning and the file is at the source and at the
\* destination.
C9_PartialSuccessWarning ==
    /\ \A i \in 1..Len(events) : PartialIO(events[i].io) => events[i].lvl = "warning"
    /\ (JustReported /\ PartialIO(Last(events).io)) =>
        /\ exists(fs, src_path) /\ exists(fs, dest_path)
        /\ fs[src_path] = orig /\ fs[dest_path] = orig

FailedIO(t) == t # <<>> /\ Last(t) \in {"move_err", "copy_err"}

RECURSIVE CandidateCount(_)
CandidateCount(groups) ==
    IF groups = <<>> THEN 0
    ELSE (IF Len(Head(groups)) > 1 THEN Len(Head(groups)) - 1 ELSE 0)
            + CandidateCount(Tail(groups))

ExpectedItems ==
    IF cmd = "move_duplicates" THEN CandidateCount(hash_to_files) ELSE Len(file_list)

\* C10: in both commands an item whose move fails for another reason than
\* permission-denied, or whose fallback copy fails, is reported as an
\* error, its file is still at the source path with its data, and the loop
\* goes on: at the end every item has been handled.
C10_FailedItem ==
    /\ \A i \in 1..Len(events) : FailedIO(events[i].io) => events[i].lvl = "error"
    /\ (JustReported /\ FailedIO(Last(events).io)) =>
        exists(fs, src_path) /\ fs[src_path] = orig
    /\ mpc \in {"done", "prune"} => Len(events) = ExpectedItems

C10_Witness ==
    /\ mpc = "done"
    /\ Len(events) >= 2
    /\ FailedIO(events[1].io)
    /\ exists(fs, events[1].src)
    /\ events[2].io = <<"move_ok">>
    /\ ~exists(fs, events[2].src)



\* the items of the run whose file reached the destination: moved, or
\* copied by the fallback (whether or not the original could be deleted)
Arrived(evs) == {i \in 1..Len(evs) : evs[i].io # <<>> /\ ~FailedIO(evs[i].io)}

\* C11 as claimed: the count reported at the end of move-duplicates and of
\* flatten-directory is the number of files that were relocated into the
\* destination during the run; an item whose relocation failed is not
\* counted.
C11_MovedCountIsRelocated ==
    mpc = "done" => moved_count = Cardinality(Arrived(events))

\* the step that reports a candidate as missing
MissingStep ==
    /\ cmd = "move_duplicates"
    /\ Len(events') = Len(events) + 1
    /\ Last(events').msg = "File not found"

\* what C12 says of that step: a report, a failure counted, nothing moved
MissingCounted ==
    MissingStep =>
        /\ ~exists(fs, Last(events').src)
        /\ fs' = fs
        /\ moved_count' = moved_count
        /\ \E k \in DOMAIN Counts \ {"moved"} : Counts'[k] = Counts[k] + 1

\* C12 as claimed: a candidate that no longer exists is reported as
\* missing and counted as a failure, changes neither the file system nor
\* the moved count, and the rest of its group and the later groups are
\* still processed: at the end every candidate has been handled.
C12_MissingFile ==
    /\ [][MissingCounted]_vars
    /\ [](MDDone => Len(events) = ExpectedItems)

Malformed(rows) ==
    \E i \in 1..Len(rows) : ~HasKeys(rows[i]) \/ rows[i].xxhash = None

FilesAt(f) == {p \in DOMAIN f : f[p].kind = "file"}

\* C13 as claimed: when a row of the manifest is malformed the read fails
\* with a fatal error: the command never goes on to the groups, no groups
\* are built and no file is relocated.
C13_MalformedIsFatal ==
    Malformed(csv_rows) =>
        /\ mpc \in {"start", "crashed"}
        /\ hash_to_files = <<>>
        /\ FilesAt(fs) = FilesAt(fs0)
        /\ \A i \in 1..Len(events) : events[i].msg \notin RelocatedMsgs

FDRun == cmd = "flatten_directory"

\* the name is the base name with a counter before the extension
IsSuffixed(name, base) ==
    LET se == splitext(base)
    IN  \E k \in 1..(MaxNested + 2) : name = SuffixedName(se.name, k, se.ext)

\* C14: flatten-directory leaves every file that is directly in the target
\* root when the run starts where it is, with its content: every item it
\* takes lies below a subdirectory, no item's destination is an entry the
\* root already had, and a file whose base name is taken by a root file
\* arrives under a suffixed name.
C14_RootFilesUntouched ==
    FDRun =>
        /\ \A p \in FilesIn(fs0, target_dir) : exists(fs, p) /\ fs[p] = fs0[p]
        /\ \A i \in 1..Len(events) :
            /\ Len(events[i].src) > 1
            /\ dirname(events[i].dst) = target_dir
            /\ ~exists(fs0, events[i].dst)
            /\ exists(fs0, join(target_dir, basename(events[i].src)))
                    => IsSuffixed(basename(events[i].dst), basename(events[i].src))

C14_Witness ==
    /\ FDRun /\ mpc = "done"
    /\ exists(fs0, <<N_x_t>>) /\ exists(fs0, <<N_s, N_x_t>>)
    /\ ~exists(fs0, <<N_x_1_t>>)
    /\ exists(fs, <<N_x_1_t>>) /\ fs[<<N_x_1_t>>] = fs0[<<N_s, N_x_t>>]
    /\ fs[<<N_x_t>>] = fs0[<<N_x_t>>]
    /\ ~exists(fs, <<N_s>>)

\* the data of the files in a set of paths
DataAt(f, S) == {f[p].data : p \in S}

\* the run is over, the root held no file when it started and every item
\* was relocated
FlattenedClean ==
    /\ FDRun /\ mpc = "done"
    /\ FilesIn(fs0, target_dir) = {}
    /\ \A i \in 1..Len(events) : events[i].msg \in RelocatedMsgs

\* the root holds exactly the N files of the tree and nothing else is left
AllInRoot ==
    /\ Cardinality(FilesIn(fs, target_dir)) = Cardinality(FilesAt(fs0))
    /\ DataAt(fs, FilesIn(fs, target_dir)) = DataAt(fs0, FilesAt(fs0))
    /\ DOMAIN fs = {ROOT} \cup FilesIn(fs, target_dir)

\* C15 as claimed: flatten-directory on a tree with N nested files and a
\* file-free root, where every move succeeds, ends with exactly N files in
\* the root and every subdirectory removed.
C15_FlattenAll == FlattenedClean => AllInRoot

\* C15 amended: the same, provided no removal of a directory is refused.
C15_FlattenAllRemovable ==
    (FlattenedClean /\ \A i \in 1..Len(rm_log) : rm_log[i].res # "refused") => AllInRoot

C15_Witness ==
    /\ FlattenedClean
    /\ Cardinality(FilesAt(fs0)) = 3
    /\ exists(fs0, <<N_s, N_t, N_x_t>>) /\ exists(fs0, <<N_s, N_s>>)
    /\ \E i \in 1..Len(events) : events[i].io = <<"move_perm", "copy_ok", "remove_ok">>
    /\ \A i \in 1..Len(rm_log) : rm_log[i].res = "removed"
    /\ AllInRoot

MDRun == cmd = "move_duplicates"

\* row i is the first row of the manifest with its fingerprint
FirstOfHash(i) == \A j \in 1..(i - 1) : csv_rows[j].xxhash # csv_rows[i].xxhash

\* p is not listed, or is the only or the first row of its fingerprint
NotADuplicate(p) ==
    \A i \in 1..Len(csv_rows) : csv_rows[i].full_path = p => FirstOfHash(i)

\* C17: move-duplicates leaves every file whose fingerprint occurs in one
\* row only, every file that is the first row of its fingerprint and every
\* file that is not listed at its path with its content, at every moment
\* of the run.
C17_OthersUntouched ==
    MDRun =>
        \A p \in FilesAt(fs0) :
            NotADuplicate(p) => exists(fs, p) /\ fs[p] = fs0[p]

C17_Witness ==
    /\ MDDone /\ run = 1
    /\ Len(csv_rows) = 3
    /\ \E i \in 1..3 : \A j \in 1..3 : j # i => csv_rows[j].xxhash # csv_rows[i].xxhash
    /\ \A i \in 1..3 : exists(fs0, csv_rows[i].full_path)
    /\ \E p \in FilesAt(fs0) : \A i \in 1..3 : csv_rows[i].full_path # p
    /\ \E i \in 1..Len(events) :
        /\ events[i].msg \in RelocatedMsgs
        /\ basename(events[i].dst) # basename(events[i].src)

\* name_k.ext, written out for the counters a run can reach
Counter == <<"1", "2", "3", "4", "5", "6", "7", "8", "9">>
Numbered(base, k) ==
    LET se == splitext(base)
    IN  se.name \o <<"_", Counter[k]>> \o se.ext

\* the names tried before the k-th numbered one are all taken
TakenBefore(base, k) ==
    /\ exists(fs, join(DestDir, base))
    /\ \A j \in 1..(k - 1) : exists(fs, join(DestDir, Numbered(base, j)))

\* C18: while a destination is being chosen, the name tried is the
\* source's base name as long as nothing was found taken, and otherwise
\* name_k.ext where the base name and every name_j.ext with j < k are
\* taken, so that the name the file is moved to is the base name if it is
\* free and else the numbered name with the smallest free k >= 1; the
\* counter never passes the number of entries of the destination, so the
\* search ends.
C18_DestinationName ==
    mpc = "probe" =>
        LET base == basename(src_path)
        IN  /\ n = 1 => dest_path = join(DestDir, base)
            /\ n > 1 => /\ dest_path = join(DestDir, Numbered(base, n - 1))
                        /\ TakenBefore(base, n - 1)
            /\ n <= Cardinality(Children(fs, DestDir)) + 1

C18_Witness ==
    /\ mpc = "probe"
    /\ n = 3
    /\ ~exists(fs, dest_path)
    /\ basename(dest_path) = <<"x", "_", "2", ".", "t">>

\* d lies above p
Above(d, p) == Len(d) < Len(p) /\ SubSeq(p, 1, Len(d)) = d

\* the directories of the pruning pass in the order of their visits: those
\* visited and those still to come
PruneOrder == [i \in 1..Len(rm_log) |-> rm_log[i].dir] \o rm_queue

SubDirs(f) == {p \in DOMAIN f : p # ROOT /\ f[p].kind = "dir"}

\* C19: the pruning pass of flatten-directory visits every subdirectory
\* once, children before their parent, and never the target root; no
\* directory is removed while it holds an entry, so every file and
\* directory left has its parent; and a removal that fails does not end
\* the pass: at the end every subdirectory has been visited.
C19_PruneBottomUp ==
    FDRun =>
        /\ \A i, j \in 1..Len(PruneOrder) :
                i < j => PruneOrder[i] # PruneOrder[j] /\ ~Above(PruneOrder[i], PruneOrder[j])
        /\ ROOT \notin Range(PruneOrder)
        /\ exists(fs, ROOT)
        /\ \A p \in DOMAIN fs : p # ROOT => exists(fs, dirname(p))
        /\ \A i \in 1..Len(rm_log) :
                rm_log[i].res = "removed" <=> ~exists(fs, rm_log[i].dir)
        /\ mpc \in {"prune", "done"} => Range(PruneOrder) = SubDirs(fs0)
        /\ mpc = "done" => Len(rm_log) = Cardinality(SubDirs(fs0))

C19_Witness ==
    /\ FDRun /\ mpc = "done"
    /\ \E i, j, k \in 1..Len(rm_log) :
        /\ i < j /\ j < k
        /\ rm_log[i].res = "refused"
        /\ rm_log[j].res = "not_empty"
        /\ Above(rm_log[j].dir, rm_log[k].dir) = FALSE
        /\ rm_log[k].res = "removed"
    /\ \E p \in FilesAt(fs) : Len(p) > 1

\* a file is being relocated, or its relocation was just reported
InRelocation == mpc \in {"probe", "copy", "remove"} \/ JustReported

Holds(p) == exists(fs, p) /\ fs[p] = orig

\* C20: at every moment of a relocation, whichever call fails, the file's
\* content is at the source path or at the chosen destination path; when
\* the fallback has taken the original away, the copy had succeeded and
\* the destination holds the content; and no content that was in the tree
\* when the run started is missing from it.
C20_NoContentLost ==
    /\ InRelocation =>
        /\ Holds(src_path) \/ Holds(dest_path)
        /\ (~exists(fs, src_path) /\ "move_perm" \in Range(io)) =>
                "copy_ok" \in Range(io) /\ Holds(dest_path)
        /\ mpc = "remove" => Holds(src_path) /\ Holds(dest_path)
    /\ DataAt(fs0, FilesAt(fs0)) \subseteq DataAt(fs, FilesAt(fs))

C20_Witness ==
    /\ JustReported
    /\ io = <<"move_perm", "copy_ok", "remove_ok">>
    /\ ~exists(fs, src_path)
    /\ Holds(dest_path)
    /\ \E i \in 1..(Len(events) - 1) : events[i].io = <<"move_err">>

\* ======================= properties of create_file_list =================

RowsOf(p) == Count(manifest, p)
FailuresOf(p) == Count(errors, p)

\* C1: every scanned path is attempted exactly once (never twice, and once
\* when the run has finished), each attempt ends as one manifest record or
\* one reported failure and never both, and at the end the number of
\* records plus the number of reported failures is the number of scanned
\* paths.
C1_ExactlyOnce ==
    /\ \A p \in Paths :
        /\ attempts[p] <= 1
        /\ RowsOf(p) + FailuresOf(p) <= 1
        /\ RowsOf(p) + FailuresOf(p) = 1 => attempts[p] = 1
    /\ \A i \in 1..Len(manifest) : manifest[i] \in Paths
    /\ \A i \in 1..Len(errors) : errors[i] \in Paths
    /\ cpc = "done" =>
        /\ \A p \in Paths : attempts[p] = 1 /\ RowsOf(p) + FailuresOf(p) = 1
        /\ Len(manifest) + Len(errors) = total_files
        /\ total_files = Len(file_paths)

C1_Witness ==
    /\ cpc = "done"
    /\ workers >= 2
    /\ total_files >= 3
    /\ Len(manifest) >= 1
    /\ Len(errors) >= 1

\* C2: manifest appends are serialized: at most one append is in progress,
\* the only thread ever inside writerow is the main thread, it appends one
\* whole row per loop turn, and a finished worker's record waits (finished,
\* not yet yielded) until the main thread takes it.
C2_SingleWriter ==
    /\ Cardinality(appenders) <= 1
    /\ appenders \subseteq {MAIN}
    /\ MAIN \in appenders <=> cpc = "writing"
    /\ cpc = "writing" => cur \in Paths /\ result = "record" /\ RowsOf(cur) = 0
    /\ \A i \in 1..Len(manifest) : manifest[i] \in yielded
    /\ \A p \in Finished \ yielded : RowsOf(p) = 0

C2_Witness ==
    /\ cpc = "writing"
    /\ \E p \in Finished \ yielded : fstate[p] = "ok"
    /\ \E q \in Paths : fstate[q] = "open"

\* C3: the number of hashing operations that are active at once (files
\* open in process_file, and calls of process_file in progress) is at most
\* the worker count, however many paths were scanned.
C3_AtMostNActive ==
    /\ Cardinality(OpenFiles) <= workers
    /\ Cardinality(Running) <= workers

C3_Witness ==
    /\ Cardinality(OpenFiles) = workers
    /\ \E p \in Paths : fstate[p] = "queued"

\* C4: the total is fixed before any worker starts; every item taken out
\* of as_completed, success or failure, leads to one notification whose
\* completed count is 1 more than the previous one; the count never exceeds
\* the total and equals it when the run has finished.
C4_Progress ==
    /\ (\E p \in Paths : fstate[p] # "new") =>
            task_total = total_files /\ total_files = Len(file_paths)
    /\ \A i \in 1..Len(notified) : notified[i] = i
    /\ Len(notified) = Cardinality(yielded \ {cur})
    /\ task_completed = Len(notified)
    /\ task_total >= 0 => task_completed <= task_total
    /\ cpc = "done" => task_completed = task_total /\ task_total = total_files

C4_Witness ==
    /\ cpc = "done"
    /\ task_completed = 3
    /\ Len(errors) >= 1
    /\ Len(manifest) >= 1

\* C5: a path whose hashing fails never gets a manifest record, and the
\* failure stops nothing: when the run has finished every path was attempted
\* and every path that hashed successfully has its record.
C5_FailureIsolated ==
    /\ \A p \in Paths : fstate[p] = "fail" => RowsOf(p) = 0
    /\ cpc = "done" =>
        \A q \in Paths :
            /\ fstate[q] \in {"ok", "fail"}
            /\ attempts[q] = 1
            /\ fstate[q] = "ok" => RowsOf(q) = 1

C5_Witness ==
    /\ cpc = "done"
    /\ total_files >= 3
    /\ fstate[1] = "fail"
    /\ fstate[2] = "ok" /\ RowsOf(2) = 1
    /\ fstate[3] = "ok" /\ RowsOf(3) = 1
    /\ errors[1] = 1

\* every path was attempted, its call is over, and every record is in the
\* manifest
AllAppended ==
    \A p \in Paths :
        /\ attempts[p] = 1
        /\ fstate[p] \in {"ok", "fail"}
        /\ RowsOf(p) = (IF fstate[p] = "ok" THEN 1 ELSE 0)

\* C16: the manifest is closed only after every scanned path's attempt is
\* over and every successful record is appended, nothing is appended after
\* the close, and, when every thread is scheduled and every hashing call
\* ends, the run reaches the closed manifest, whichever items fail.
C16_ClosedAfterAll ==
    /\ [](csv_state = "closed" => AllAppended)
    /\ [][csv_state = "closed" => manifest' = manifest]_vars
    /\ <>(csv_state = "closed")

C16_Witness ==
    /\ csv_state = "closed"
    /\ \E p \in Paths : fstate[p] = "fail"
    /\ \E p \in Paths : fstate[p] = "ok"
    /\ Len(manifest) >= 2

====
